---- MODULE Spec2Model ----
(***************************************************************************)
(* A model of PedersenVSS (src/PedersenVSS.py): modular arithmetic,        *)
(* polynomial sharing, Pedersen commitments, share verification and        *)
(* Lagrange reconstruction over the prime field chosen at construction.    *)
(* Python integers are unbounded; % and // on a positive modulus are the   *)
(* floor operations, which are TLA+'s % and \div.                          *)
(***************************************************************************)
EXTENDS Integers, Sequences, FiniteSets

\* ------------------------------------------------------------------ bounds
MaxThreshold == 2
MaxShares == 3
MaxReveal == 2
MaxIndex == 2
MaxBase == 6
MaxExp == 5
MaxMod == 7

\* Primes the instance is constructed with (the constructor's argument).
Primes == {5, 7}

\* g-components tried in lists handed to lagrange_interpolation directly.
GComponents == {0, 1}

\* ------------------------------------------------------------ state
VARIABLES
    p,           \* self.p
    phase,       \* "new" until generate_shares_and_commitments has returned
    secret,      \* arguments of the generate call
    threshold,
    num_shares,
    gen,         \* what generate_shares_and_commitments returned
    call         \* the last call of a pure method: its arguments and outcome

vars == <<p, phase, secret, threshold, num_shares, gen, call>>

g == 2
h == 3

\* A returned value, and a raised ValueError.
Ok(v) == [err |-> "none", val |-> v]
Raise(e) == [err |-> e, val |-> 0]

Max(a, b) == IF a >= b THEN a ELSE b
Min(a, b) == IF a <= b THEN a ELSE b

\* ------------------------------------------------------ field arithmetic
RECURSIVE extended_gcd(_, _)
extended_gcd(a, b) ==
    IF a = 0 THEN <<b, 0, 1>>
    ELSE LET r == extended_gcd(b % a, a)
         IN  <<r[1], r[3] - (b \div a) * r[2], r[2]>>

\* Mutant: the gcd test is missing.
mod_inverse_nocheck(a, m) ==
    LET r == extended_gcd(a % m, m)
    IN  Ok(((r[2] % m) + m) % m)

\* Mutant: the Bezout coefficient is returned as it is, not reduced into [0, m).
mod_inverse_nonorm(a, m) ==
    LET r == extended_gcd(a % m, m)
    IN  IF r[1] # 1 THEN Raise("Modular inverse does not exist")
        ELSE Ok(r[2])

mod_inverse(a, m) ==
    LET r == extended_gcd(a % m, m)
    IN  IF r[1] # 1 THEN Raise("Modular inverse does not exist")
        ELSE Ok(((r[2] % m) + m) % m)

RECURSIVE pow_loop(_, _, _, _)
pow_loop(result, base, exp, mod) ==
    IF exp > 0
    THEN pow_loop(IF exp % 2 = 1 THEN (result * base) % mod ELSE result,
                  (base * base) % mod, exp \div 2, mod)
    ELSE result

pow_mod(base, exp, mod) == pow_loop(1, base % mod, exp, mod)

\* ----------------------------------------------------------- polynomials
\* generate_polynomial: the constant term followed by threshold - 1 draws of
\* secrets.randbelow(p); drawn is the sequence of those draws.
Draws(t, q) == [1..Max(t - 1, 0) -> 0..(q - 1)]

generate_polynomial(constant, drawn) == <<constant>> \o drawn

\* Horner's rule over reversed(coeffs): k runs from Len(coeffs) down to 1.
RECURSIVE horner(_, _, _, _, _)
horner(coeffs, x, k, result, q) ==
    IF k = 0 THEN result
    ELSE horner(coeffs, x, k - 1, (result * x + coeffs[k]) % q, q)

evaluate_polynomial(coeffs, x, q) == horner(coeffs, x, Len(coeffs), 0, q)

\* ------------------------------------------------ shares and commitments
\* C_j = g^{f_coeffs[j]} * h^{g_coeffs[j]} mod p (j is 1-based here).
commitment(f_coeffs, g_coeffs, j, q) ==
    (pow_mod(g, f_coeffs[j], q) * pow_mod(h, g_coeffs[j], q)) % q

\* The body of generate_shares_and_commitments once both polynomials are
\* drawn.  No path of the method raises.
generate_shares_and_commitments(s, t, n, f_drawn, g_drawn, q) ==
    LET f_coeffs == generate_polynomial(s, f_drawn)
        g_coeffs == generate_polynomial(0, g_drawn)
    IN  [err |-> "none",
         shares |-> [i \in 1..Max(n, 0) |->
                        <<evaluate_polynomial(f_coeffs, i, q),
                          evaluate_polynomial(g_coeffs, i, q)>>],
         commitments |-> [j \in 1..Max(t, 0) |->
                             commitment(f_coeffs, g_coeffs, j, q)],
         f_coeffs |-> f_coeffs]

\* ---------------------------------------------------------- verification
\* right = product over j = 0..threshold-1 of commitments[j]^(i^j mod (p-1)).
RECURSIVE verify_right(_, _, _, _, _, _)
verify_right(share_index, commitments, t, j, right, q) ==
    IF j >= t THEN right
    ELSE verify_right(share_index, commitments, t, j + 1,
             (right * pow_mod(commitments[j + 1],
                              pow_mod(share_index, j, q - 1), q)) % q, q)

verify_share(share_index, share, commitments, t, q) ==
    LET left == (pow_mod(g, share[1], q) * pow_mod(h, share[2], q)) % q
    IN  left = verify_right(share_index, commitments, t, 0, 1, q)

\* -------------------------------------------------------- reconstruction
\* shares[:threshold] of Python, for any integer threshold.
\* Mutant: the list is not cut to its first threshold entries.
Prefix_whole(shares, t) == shares

Prefix(shares, t) ==
    IF t >= 0 THEN SubSeq(shares, 1, Min(t, Len(shares)))
    ELSE SubSeq(shares, 1, Max(Len(shares) + t, 0))

\* The inner loop over j (1-based) for the entry at position i: the pair
\* <<numerator, denominator>>.
\* Mutant: the numerator multiplies by x_j instead of -x_j.
lagrange_step_sign(nd, x_i, x_j, q) ==
    <<(nd[1] * x_j) % q, (nd[2] * (x_i - x_j)) % q>>

lagrange_step(nd, x_i, x_j, q) ==
    <<(nd[1] * (0 - x_j)) % q, (nd[2] * (x_i - x_j)) % q>>

RECURSIVE lagrange_terms(_, _, _, _, _)
lagrange_terms(sel, i, j, nd, q) ==
    IF j > Len(sel) THEN nd
    ELSE lagrange_terms(sel, i, j + 1,
             IF i # j THEN lagrange_step(nd, sel[i][1], sel[j][1], q) ELSE nd,
             q)

\* The outer loop over i; a ValueError of mod_inverse leaves the method.
RECURSIVE lagrange_sum(_, _, _, _)
lagrange_sum(sel, i, acc, q) ==
    IF i > Len(sel) THEN Ok(acc)
    ELSE LET nd == lagrange_terms(sel, i, 1, <<1, 1>>, q)
             inv == mod_inverse(nd[2], q)
         IN  IF inv.err # "none" THEN inv
             ELSE lagrange_sum(sel, i + 1,
                      (acc + sel[i][2][1] * ((nd[1] * inv.val) % q)) % q, q)

\* Mutant: the length of the list is not checked.
lagrange_interpolation_nolen(shares, t, q) ==
    lagrange_sum(Prefix(shares, t), 1, 0, q)

lagrange_interpolation(shares, t, q) ==
    IF Len(shares) < t THEN Raise("Not enough shares for reconstruction")
    ELSE lagrange_sum(Prefix(shares, t), 1, 0, q)

\* ------------------------------------------------------------- calls
NoGen == [err |-> "none", shares |-> <<>>, commitments |-> <<>>, f_coeffs |-> <<>>]
NoCall == [op |-> "none", args |-> <<>>, ret |-> Ok(0)]

Init ==
    /\ p \in Primes
    /\ phase = "new"
    /\ secret = 0
    /\ threshold = 0
    /\ num_shares = 0
    /\ gen = NoGen
    /\ call = NoCall

PowModCall ==
    /\ call.op = "none"
    /\ \E base \in -MaxBase..MaxBase, exp \in 0..MaxExp, mod \in 1..MaxMod :
          call' = [op |-> "pow_mod", args |-> <<base, exp, mod>>,
                   ret |-> Ok(pow_mod(base, exp, mod))]
    /\ UNCHANGED <<p, phase, secret, threshold, num_shares, gen>>

ModInverseCall ==
    /\ call.op = "none"
    /\ \E a \in -MaxBase..MaxBase, m \in 1..MaxMod :
          call' = [op |-> "mod_inverse", args |-> <<a, m>>,
                   ret |-> mod_inverse(a, m)]
    /\ UNCHANGED <<p, phase, secret, threshold, num_shares, gen>>

NextArith == PowModCall \/ ModInverseCall

SpecArith == Init /\ [][NextArith]_vars

\* One sharing event: the dealer calls generate_shares_and_commitments once.
Generate ==
    /\ phase = "new"
    /\ \E s \in 0..(p - 1), t \in -1..MaxThreshold, n \in 0..MaxShares :
          \E f_drawn \in Draws(t, p), g_drawn \in Draws(t, p) :
             /\ secret' = s
             /\ threshold' = t
             /\ num_shares' = n
             /\ gen' = generate_shares_and_commitments(s, t, n, f_drawn, g_drawn, p)
    /\ phase' = "generated"
    /\ UNCHANGED <<p, call>>

\* A trustee checks the share it was given.
VerifyShare ==
    /\ phase = "generated"
    /\ call.op = "none"
    /\ \E i \in 1..Len(gen.shares) :
          call' = [op |-> "verify_share", args |-> <<i, gen.shares[i]>>,
                   ret |-> Ok(verify_share(i, gen.shares[i], gen.commitments,
                                           threshold, p))]
    /\ UNCHANGED <<p, phase, secret, threshold, num_shares, gen>>

\* verify_share on a share with one component replaced by another field value.
VerifyTampered ==
    /\ phase = "generated"
    /\ call.op = "none"
    /\ \E i \in 1..Len(gen.shares), c \in {1, 2}, v \in 0..(p - 1) :
          /\ v # gen.shares[i][c]
          /\ LET share == [gen.shares[i] EXCEPT ![c] = v]
             IN  call' = [op |-> "verify_tampered", args |-> <<i, share>>,
                          ret |-> Ok(verify_share(i, share, gen.commitments,
                                                  threshold, p))]
    /\ UNCHANGED <<p, phase, secret, threshold, num_shares, gen>>

NextVSS == Generate \/ VerifyShare \/ VerifyTampered

Spec == Init /\ [][NextVSS]_vars

\* Sequences of k distinct trustee indices among 1..n.
InjSeqs(n, k) ==
    {s \in [1..k -> 1..n] : \A a, b \in 1..k : a # b => s[a] # s[b]}

\* Trustees reveal generated shares, in any order, and the secret is
\* reconstructed from them with the threshold of the sharing.
Reconstruct ==
    /\ phase = "generated"
    /\ call.op = "none"
    /\ \E k \in 0..Len(gen.shares) :
          \E order \in InjSeqs(Len(gen.shares), k) :
             LET revealed == [a \in 1..k |-> <<order[a], gen.shares[order[a]]>>]
             IN  call' = [op |-> "reconstruct", args |-> <<revealed, threshold>>,
                          ret |-> lagrange_interpolation(revealed, threshold, p)]
    /\ UNCHANGED <<p, phase, secret, threshold, num_shares, gen>>

NextRecon == Generate \/ Reconstruct

SpecRecon == Init /\ [][NextRecon]_vars

\* (index, (f, g)) entries and the lists of them a caller may hand over.
Entries == {<<x, <<fv, gv>>>> : x \in 1..MaxIndex, fv \in 0..(p - 1), gv \in GComponents}

Lists == UNION {[1..k -> Entries] : k \in 0..MaxReveal}

LagrangeCall ==
    /\ call.op = "none"
    /\ \E shares \in Lists, t \in -1..(MaxReveal + 1) :
          call' = [op |-> "lagrange_interpolation", args |-> <<shares, t>>,
                   ret |-> lagrange_interpolation(shares, t, p)]
    /\ UNCHANGED <<p, phase, secret, threshold, num_shares, gen>>

NextLagrange == LagrangeCall

SpecLagrange == Init /\ [][NextLagrange]_vars

\* ------------------------------------------------------- reference maths
RECURSIVE Power(_, _)
Power(b, e) == IF e = 0 THEN 1 ELSE b * Power(b, e - 1)

Abs(a) == IF a < 0 THEN 0 - a ELSE a

RECURSIVE Gcd(_, _)
Gcd(a, b) == IF b = 0 THEN a ELSE Gcd(b, a % b)

ValidParams == threshold >= 1 /\ num_shares >= threshold

Indices(shares) == [k \in 1..Len(shares) |-> shares[k][1]]

\* The commitment sequences generate can publish for secret s and threshold t,
\* over every draw of the random coefficients of f and g.
CommitmentSet(s, t, q) ==
    {generate_shares_and_commitments(s, t, t, fd, gd, q).commitments :
        fd \in Draws(t, q), gd \in Draws(t, q)}

\* ---------------------------------------------------------------- claims

\* C1: every share returned by generate_shares_and_commitments(s, t, n), with
\* t >= 1 and n >= t, passes verify_share against the returned commitments.
C1_HonestShareVerifies ==
    (call.op = "verify_share" /\ ValidParams) => call.ret.val = TRUE

\* C2: with t >= 1 and t <= n < p, lagrange_interpolation applied to any t of the
\* generated (index, share) pairs, in any order, returns exactly the secret.
C2_RoundTrip ==
    (/\ call.op = "reconstruct"
     /\ ValidParams
     /\ num_shares < p
     /\ Len(call.args[1]) = threshold)
        => call.ret = Ok(secret)

\* A reconstruction from a subset that is not the prefix 1..t, taken out of
\* order, of a non-constant polynomial.
C2_Witness ==
    /\ call.op = "reconstruct"
    /\ threshold = 2
    /\ num_shares = 3
    /\ Indices(call.args[1]) = <<3, 1>>
    /\ gen.f_coeffs = <<4, 3>>
    /\ call.ret = Ok(4)

\* C3: replacing one component of a generated share by a different value of
\* [0, p) makes verify_share return False for that index.
C3_TamperDetected ==
    (call.op = "verify_tampered" /\ ValidParams) => call.ret.val = FALSE

\* C4: generate_shares_and_commitments fails and returns nothing whenever
\* threshold < 1 or num_shares < threshold.
C4_RejectsInvalid ==
    (phase = "generated" /\ ~ValidParams) =>
        /\ gen.err # "none"
        /\ gen.shares = <<>>
        /\ gen.commitments = <<>>
        /\ gen.f_coeffs = <<>>

\* C5: for t >= 1 the commitment sequences generate can publish are the same
\* set for any two secrets of [0, p).
C5_CommitmentsHide ==
    (phase = "generated" /\ threshold >= 1) =>
        \A s2 \in 0..(p - 1) :
            CommitmentSet(secret, threshold, p) = CommitmentSet(s2, threshold, p)

\* C6: lagrange_interpolation given fewer than threshold entries raises and
\* returns no value.
C6_InsufficientShares ==
    (call.op = "lagrange_interpolation" /\ Len(call.args[1]) < call.args[2])
        => call.ret = Raise("Not enough shares for reconstruction")

C6_Witness ==
    /\ call.op = "lagrange_interpolation"
    /\ Len(call.args[1]) = 1
    /\ call.args[2] = 2
    /\ call.ret.err = "Not enough shares for reconstruction"

\* C7: when two of the first threshold entries carry the same index,
\* lagrange_interpolation raises instead of returning a value; the error is
\* mod_inverse's whenever the list holds at least threshold entries.
C7_DuplicateIndex ==
    (/\ call.op = "lagrange_interpolation"
     /\ \E a, b \in 1..Min(call.args[2], Len(call.args[1])) :
           a # b /\ call.args[1][a][1] = call.args[1][b][1])
        => /\ call.ret.err # "none"
           /\ Len(call.args[1]) >= call.args[2]
                 => call.ret = Raise("Modular inverse does not exist")

C7_Witness ==
    /\ call.op = "lagrange_interpolation"
    /\ call.args[2] = 2
    /\ call.args[1] = <<<<1, <<3, 0>>>>, <<1, <<4, 1>>>>>>
    /\ call.ret.err = "Modular inverse does not exist"

\* The first t entries with their g-components erased.
UsedPart(shares, t) ==
    [k \in 1..t |-> <<shares[k][1], <<shares[k][2][1], 0>>>>]

\* C8: the outcome of lagrange_interpolation on a list of at least threshold
\* entries is the outcome on its first threshold entries alone with their
\* g-components erased; so two lists that agree on the index and f-component
\* of their first threshold entries have the same outcome, whatever follows.
C8_FirstThresholdOnly ==
    (/\ call.op = "lagrange_interpolation"
     /\ call.args[2] >= 0
     /\ Len(call.args[1]) >= call.args[2])
        => call.ret = lagrange_interpolation(
                          UsedPart(call.args[1], call.args[2]), call.args[2], p)

\* One entry is used; the entry after it repeats its index with another share.
C8_Witness ==
    /\ call.op = "lagrange_interpolation"
    /\ call.args[2] = 1
    /\ call.args[1] = <<<<2, <<3, 1>>>>, <<2, <<4, 0>>>>>>
    /\ call.ret = Ok(3)

\* C9: pow_mod(base, exp, mod) returns base^exp mod mod, a value in [0, mod),
\* for every integer base, every exp >= 0 and every mod >= 1.
C9_PowModIsPower ==
    call.op = "pow_mod" =>
        /\ call.ret.val = Power(call.args[1], call.args[2]) % call.args[3]
        /\ call.ret.val \in 0..(call.args[3] - 1)

\* C10: mod_inverse(a, m), for any integer a and m >= 1, returns the r in
\* [0, m) with (a * r) mod m = 1 mod m when gcd(a, m) = 1, and raises when
\* gcd(a, m) # 1.
C10_ModInverse ==
    call.op = "mod_inverse" =>
        LET a == call.args[1]
            m == call.args[2]
        IN  IF Gcd(Abs(a), m) = 1
            THEN /\ call.ret.err = "none"
                 /\ call.ret.val \in 0..(m - 1)
                 /\ (a * call.ret.val) % m = 1 % m
            ELSE call.ret = Raise("Modular inverse does not exist")

\* A negative argument whose inverse modulo 7 is 5: -4 = 3 (mod 7), 3 * 5 = 15.
C10_Witness ==
    /\ call.op = "mod_inverse"
    /\ call.args = <<-4, 7>>
    /\ call.ret = Ok(5)

====
